---- MODULE Spec2Model ----
(***************************************************************************)
(* FootyIQ: the quiz session, the score transaction and the league         *)
(* operations of the two client programs of the repository:                *)
(*   "part000"  src/unnamed/part_000     (local QUIZ_DATA, Firestore score) *)
(*   "web"      src/Web/FootyIQApp.jsx   (mock questions, mock scoring)     *)
(* A behaviour runs one of the two programs (variant is fixed by Init).     *)
(* React state is modelled per committed render: a handler reads the state  *)
(* of the render it was created in, so a timer or timeout callback carries  *)
(* the state it captured (its closure) with it.                             *)
(***************************************************************************)
EXTENDS Integers, Sequences, FiniteSets, TLC

VARIABLES
    variant,          \* which program runs: "part000" or "web"
    isQuizActive,     \* useState(false), both programs
    sessions,         \* number of quiz starts so far (capped by MaxSessions)
    timeouts,         \* pending setTimeout callbacks, in firing order; each is its closure
    ticks,            \* timer callbacks run since the quiz was last started
    pastExpiresAt,    \* the quiz definition's expiresAt <= Date.now()
    isQuizExpired,    \* the countdown shown on the home page is at 0 (Start button disabled)
    quizData,         \* Web: <<>> (null) or <<quizId of the quiz definition held>>
    \* ---- part_000 quiz state
    quizState,        \* <<>> (null) or <<[currentQuestionIndex, correctAnswers, answeredCount, questionStatus]>>
    quizResult,       \* <<>> (null) or <<result of calculateResults>>
    timeRemaining,    \* seconds left
    showModal,        \* "null" or "Results"
    timerQuizState,   \* the quizState captured by the endQuiz the timer effect closed over
    \* ---- Web quiz state
    quizCurrentQuestion,
    quizTimeLeft,
    quizAnswers,
    quizResults,      \* <<>> (null) or <<[answered, correct, points, accuracy, isTimeout, newTotalScore]>>
    quizFeedback,     \* <<>> (null) or <<[status, correctOption]>>
    \* ---- profile document and its client-side copies
    profile,          \* users/{userId}/gameData/profile: [exists, score, leagueScore, globalRank, version]
    userData,         \* the client's copy (useState)
    snapDirty,        \* a snapshot of the profile document is yet to be delivered to onSnapshot
    initWritePending, \* the listener's setDoc(initialData, merge) is in flight
    txns,             \* the runTransaction calls of updateUserScore, in call order
    \* ---- leagues (shared store) and the clients that use them
    leagues,          \* the documents of the leagues collection, in the order added
    memberships,      \* users/{userId}/gameData/myLeagues/{leagueId} documents
    proc,             \* per client: where its league form handler is
    joins,            \* number of join transactions started so far (capped by MaxJoins)
    lastOutcome       \* the outcome a league handler reported last (its toast or alert)

expiryVars == <<pastExpiresAt, isQuizExpired, quizData>>

quizVars == <<variant, isQuizActive, sessions, timeouts, ticks, expiryVars, quizState, quizResult,
              timeRemaining, showModal, timerQuizState, quizCurrentQuestion,
              quizTimeLeft, quizAnswers, quizResults, quizFeedback, profile,
              userData, snapDirty, initWritePending, txns>>

leagueVars == <<leagues, memberships, proc, joins, lastOutcome>>

vars == <<quizVars, leagueVars>>

-----------------------------------------------------------------------------
(* Bounds of the model *)

MaxSessions == 2      \* quiz starts per behaviour
TimeLimit == 3        \* stands for timeLimitSeconds (90 in both programs)
MaxAttempts == 2      \* attempts of one runTransaction before it rejects
MockLen == 3          \* stands for MOCK_QUESTIONS.length (25)
MaxCalls == 2         \* updateUserScore calls in a behaviour of SpecScore
MaxCorrect == 2       \* SpecScore calls updateUserScore with 0..MaxCorrect correct answers
MaxLeagues == 2       \* league documents in the store
MaxJoins == 2         \* join transactions per behaviour

(* Program constants *)

NumQuestions == 4         \* QUIZ_DATA.questions.length
pointsPerQuestion == 10   \* QUIZ_DATA.pointsPerQuestion

\* QUIZ_DATA.questions: the id and the position (1..4) of the correct option
\* in the options list of each question.
Questions ==
    << [id |-> 1, correct |-> 1], [id |-> 2, correct |-> 3],
       [id |-> 3, correct |-> 3], [id |-> 4, correct |-> 1] >>

\* The options a click can select: for every question one of the two is the
\* correct option and the other is not.
SelectableOptions == {1, 3}

\* Web: option letters of the buttons (String.fromCharCode(65 + index))
OptionLetters == {"A", "B"}

timeLimitSeconds == TimeLimit

\* the quizId of the quiz definition (QUIZ_DATA_MOCK.quizId)
QuizId == "quiz_01_20250101"

\* what a poll of the active quizzes can yield: no quiz, or the quiz
QuizResponses == {<<>>, <<QuizId>>}

\* the authenticated users (one client each)
Users == {"u1", "u2", "u3"}

-----------------------------------------------------------------------------
(* Pure helpers *)

\* Number.prototype.toFixed(1) of (num / den) * 100, as tenths of a percent
ToFixed1(num, den) == (num * 2000 + den) \div (2 * den)

\* calculateResults(state): the 2nd argument passed by endQuiz is not a parameter
calculateResults(state) ==
    [ totalAnswered  |-> state.answeredCount,
      correctAnswers |-> state.correctAnswers,
      pointsEarned   |-> state.correctAnswers * pointsPerQuestion,
      accuracyRate   |-> IF state.answeredCount > 0
                         THEN ToFixed1(state.correctAnswers, state.answeredCount)
                         ELSE 0 ]

InitialQuizState ==
    [ currentQuestionIndex |-> 0, correctAnswers |-> 0, answeredCount |-> 0,
      questionStatus |-> [q \in {} |-> 0] ]

\* the runTransaction calls that have neither committed nor rejected
InFlight(ts) == {i \in DOMAIN ts : ts[i].pc \in {"get", "set", "commit"}}

\* updateUserScore(points): a new runTransaction call. inFlightAtCall records
\* the calls that were still running when this one was made.
NewTxn(points, ts) ==
    [ points |-> points, pc |-> "get", readVersion |-> 0, newScore |-> 0,
      attempts |-> 0, inFlightAtCall |-> InFlight(ts) ]

-----------------------------------------------------------------------------
Init ==
    /\ variant \in {"part000", "web"}
    /\ isQuizActive = FALSE
    /\ sessions = 0
    /\ timeouts = <<>>
    /\ ticks = 0
    /\ pastExpiresAt = FALSE            \* expiresAt: Date.now() + 24 h at load
    /\ isQuizExpired = (variant = "web") \* timeUntilExpiry > 0; Web: useState(0) until the first fetch
    /\ quizData = <<QuizId>>            \* Web: useState(QUIZ_DATA_MOCK)
    /\ quizState = <<>>
    /\ quizResult = <<>>
    /\ timeRemaining = timeLimitSeconds
    /\ showModal = "null"
    /\ timerQuizState = <<>>
    /\ quizCurrentQuestion = 0
    /\ quizTimeLeft = timeLimitSeconds
    /\ quizAnswers = <<>>
    /\ quizResults = <<>>
    /\ quizFeedback = <<>>
    /\ profile = [exists |-> FALSE, score |-> 0, leagueScore |-> 0,
                  globalRank |-> "", version |-> 0]
    /\ userData = IF variant = "part000"
                  THEN <<[score |-> 0, leagueScore |-> 0, globalRank |-> "#N/A"]>>
                  ELSE <<>>
    /\ snapDirty = TRUE
    /\ initWritePending = FALSE
    /\ txns = <<>>
    /\ leagues = <<>>
    /\ memberships = [k \in {} |-> 0]
    /\ proc = [u \in Users |-> [pc |-> "idle", league |-> 0]]
    /\ joins = 0
    /\ lastOutcome = "none"

webQuizVars == <<quizCurrentQuestion, quizTimeLeft, quizAnswers, quizResults, quizFeedback>>
partQuizVars == <<quizState, quizResult, timeRemaining, showModal, timerQuizState>>
storeVars == <<profile, userData, snapDirty, initWritePending, txns>>

-----------------------------------------------------------------------------
(* part_000: quiz logic *)

\* startQuiz, from the Start Quiz button of the home page (shown when no quiz
\* is active; a modal covers it). The timer effect re-runs for the render that
\* follows and closes over that render's endQuiz, hence over its quizState.
startQuiz ==
    /\ variant = "part000"
    /\ ~isQuizActive
    /\ ~isQuizExpired                   \* the button is disabled={isQuizExpired}
    /\ showModal = "null"
    /\ sessions < MaxSessions
    /\ sessions' = sessions + 1
    /\ isQuizActive' = TRUE
    /\ quizResult' = <<>>
    /\ timeRemaining' = timeLimitSeconds
    /\ quizState' = <<InitialQuizState>>
    /\ timerQuizState' = quizState'
    /\ ticks' = 0
    /\ UNCHANGED <<leagueVars, expiryVars, variant, timeouts, showModal, webQuizVars, storeVars>>

\* endQuiz(timedOut) of the render whose quizState is `state`
endQuiz(state, timedOut) ==
    /\ isQuizActive' = FALSE
    /\ quizResult' = <<calculateResults(state)>>
    /\ txns' = Append(txns, NewTxn(calculateResults(state).pointsEarned, txns))
    /\ showModal' = "Results"

\* one firing of the setInterval callback of the timer effect
Tick ==
    /\ variant = "part000"
    /\ isQuizActive
    /\ ticks' = ticks + 1
    /\ IF timeRemaining <= 1
       THEN /\ endQuiz(timerQuizState[1], TRUE)
            /\ timeRemaining' = 0
       ELSE /\ timeRemaining' = timeRemaining - 1
            /\ UNCHANGED <<isQuizActive, quizResult, txns, showModal>>
    /\ UNCHANGED <<leagueVars, expiryVars, variant, sessions, timeouts, quizState, timerQuizState,
                   webQuizVars, profile, userData, snapDirty, initWritePending>>


CurrentQ(state) == Questions[state.currentQuestionIndex + 1]

\* handleAnswer without its guard
AlreadyAnsweredUnguarded(state) == FALSE

\* the guard of handleAnswer: the current question has a questionStatus entry
AlreadyAnswered(state) == CurrentQ(state).id \in DOMAIN state.questionStatus

\* handleAnswer counting the correct answers only
AnsweredStateCorrectOnly(state, selectedOption) ==
    LET currentQ == CurrentQ(state)
        isCorrect == selectedOption = currentQ.correct
        entry == [ status |-> IF isCorrect THEN "correct" ELSE "incorrect",
                   selected |-> selectedOption,
                   correctAnswer |-> currentQ.correct ]
    IN  [ state EXCEPT
            !.correctAnswers = IF isCorrect THEN @ + 1 ELSE @,
            !.questionStatus =
                [q \in DOMAIN @ \cup {currentQ.id} |->
                    IF q = currentQ.id THEN entry ELSE @[q]] ]

\* the state handleAnswer(selectedOption) passes to setQuizState
AnsweredState(state, selectedOption) ==
    LET currentQ == CurrentQ(state)
        isCorrect == selectedOption = currentQ.correct
        entry == [ status |-> IF isCorrect THEN "correct" ELSE "incorrect",
                   selected |-> selectedOption,
                   correctAnswer |-> currentQ.correct ]
    IN  [ state EXCEPT
            !.correctAnswers = IF isCorrect THEN @ + 1 ELSE @,
            !.answeredCount = @ + 1,
            !.questionStatus =
                [q \in DOMAIN @ \cup {currentQ.id} |->
                    IF q = currentQ.id THEN entry ELSE @[q]] ]

\* handleAnswer writing the points of each correct answer as it is given
handleAnswerScoring(selectedOption) ==
    /\ variant = "part000"
    /\ isQuizActive
    /\ quizState # <<>>
    /\ IF AlreadyAnswered(quizState[1])
       THEN UNCHANGED <<quizState, timeouts, txns>>
       ELSE /\ quizState' = <<AnsweredState(quizState[1], selectedOption)>>
            /\ timeouts' = Append(timeouts, [quizState |-> quizState[1]])
            /\ txns' = IF selectedOption = CurrentQ(quizState[1]).correct
                       THEN Append(txns, NewTxn(pointsPerQuestion, txns))
                       ELSE txns
    /\ UNCHANGED <<leagueVars, expiryVars, variant, isQuizActive, sessions, ticks, quizResult, timeRemaining,
                   showModal, timerQuizState, webQuizVars, profile, userData, snapDirty,
                   initWritePending>>

\* handleAnswer(selectedOption), from an option button of the quiz view
\* (rendered while isQuizActive && quizState). The timeout closes over the
\* quizState of the render the click happened in.
handleAnswer(selectedOption) ==
    /\ variant = "part000"
    /\ isQuizActive
    /\ quizState # <<>>
    /\ IF AlreadyAnswered(quizState[1])
       THEN UNCHANGED <<quizState, timeouts>>
       ELSE /\ quizState' = <<AnsweredState(quizState[1], selectedOption)>>
            /\ timeouts' = Append(timeouts, [quizState |-> quizState[1]])
    /\ UNCHANGED <<leagueVars, expiryVars, variant, isQuizActive, sessions, ticks, quizResult, timeRemaining,
                   showModal, timerQuizState, webQuizVars, storeVars>>

\* the setTimeout callback of handleAnswer (800 ms); callbacks of equal delay
\* run in the order they were scheduled
AdvanceTimeout ==
    /\ variant = "part000"
    /\ timeouts # <<>>
    /\ LET closure == Head(timeouts).quizState
           nextIndex == closure.currentQuestionIndex + 1
       IN  IF nextIndex < NumQuestions
           THEN /\ quizState' = <<[quizState[1] EXCEPT !.currentQuestionIndex = nextIndex]>>
                /\ UNCHANGED <<isQuizActive, quizResult, txns, showModal>>
           ELSE /\ endQuiz(closure, FALSE)
                /\ UNCHANGED quizState
    /\ timeouts' = Tail(timeouts)
    /\ UNCHANGED <<leagueVars, expiryVars, variant, sessions, ticks, timeRemaining, timerQuizState, webQuizVars,
                   profile, userData, snapDirty, initWritePending>>

\* the Results modal's onClose / "Back to Home"
CloseResultsModal ==
    /\ variant = "part000"
    /\ showModal = "Results"
    /\ showModal' = "null"
    /\ UNCHANGED <<leagueVars, expiryVars, variant, isQuizActive, sessions, timeouts, ticks, quizState, quizResult,
                   timeRemaining, timerQuizState, webQuizVars, storeVars>>

-----------------------------------------------------------------------------
(* The profile document: updateUserScore's transaction and the listener *)

\* a write that changes the document gives it a new version (update time)
Written(doc, new) ==
    IF doc.exists /\ doc.score = new.score /\ doc.leagueScore = new.leagueScore
       /\ doc.globalRank = new.globalRank
    THEN doc
    ELSE [ exists |-> TRUE, score |-> new.score, leagueScore |-> new.leagueScore,
           globalRank |-> new.globalRank, version |-> doc.version + 1 ]

\* one run of the transaction body of updateUserScore, up to its await: the
\* store reads the document for transaction.get
TxnGet(i) ==
    /\ variant = "part000"
    /\ i \in DOMAIN txns
    /\ txns[i].pc = "get"
    /\ LET currentScore == IF profile.exists THEN profile.score ELSE 0
           newScore == currentScore + txns[i].points
       IN  txns' = [txns EXCEPT ![i].pc = "set",
                                ![i].readVersion = profile.version,
                                ![i].newScore = newScore]
    /\ UNCHANGED <<leagueVars, expiryVars, variant, isQuizActive, sessions, timeouts, ticks, partQuizVars,
                   webQuizVars, profile, userData, snapDirty, initWritePending>>

\* the rest of the body, run when the await resumes: the buffered
\* transaction.set and the optimistic setUserData
TxnBody(i) ==
    /\ variant = "part000"
    /\ i \in DOMAIN txns
    /\ txns[i].pc = "set"
    /\ txns' = [txns EXCEPT ![i].pc = "commit"]
    /\ userData' = <<[userData[1] EXCEPT !.score = txns[i].newScore,
                                         !.leagueScore = txns[i].newScore,
                                         !.globalRank = "#calculating"]>>
    /\ UNCHANGED <<leagueVars, expiryVars, variant, isQuizActive, sessions, timeouts, ticks, partQuizVars,
                   webQuizVars, profile, snapDirty, initWritePending>>

\* a commit that applies the buffered write whatever the document has become
TxnCommitUnchecked(i) ==
    /\ variant = "part000"
    /\ i \in DOMAIN txns
    /\ txns[i].pc = "commit"
    /\ profile' = Written(profile, [score |-> txns[i].newScore,
                                     leagueScore |-> txns[i].newScore,
                                     globalRank |-> "#calculating"])
    /\ txns' = [txns EXCEPT ![i].pc = "committed"]
    /\ snapDirty' = (snapDirty \/ profile' # profile)
    /\ UNCHANGED <<leagueVars, expiryVars, variant, isQuizActive, sessions, timeouts, ticks, partQuizVars,
                   webQuizVars, userData, initWritePending>>

\* the commit of the transaction: applied when the document is as it was read,
\* otherwise the body runs again until the attempts are used up
TxnCommit(i) ==
    /\ variant = "part000"
    /\ i \in DOMAIN txns
    /\ txns[i].pc = "commit"
    /\ IF profile.version = txns[i].readVersion
       THEN /\ profile' = Written(profile, [score |-> txns[i].newScore,
                                            leagueScore |-> txns[i].newScore,
                                            globalRank |-> "#calculating"])
            /\ txns' = [txns EXCEPT ![i].pc = "committed"]
            /\ snapDirty' = (snapDirty \/ profile' # profile)
       ELSE /\ txns' = [txns EXCEPT
                          ![i].attempts = @ + 1,
                          ![i].pc = IF txns[i].attempts + 1 < MaxAttempts
                                    THEN "get" ELSE "failed"]
            /\ UNCHANGED <<profile, snapDirty>>
    /\ UNCHANGED <<leagueVars, expiryVars, variant, isQuizActive, sessions, timeouts, ticks, partQuizVars,
                   webQuizVars, userData, initWritePending>>

\* how the promise updateUserScore returned for call i has settled: the catch
\* around runTransaction logs the error and returns, so the promise is
\* fulfilled after a rejected transaction as after a committed one (endQuiz
\* does not await it either)
updateUserScoreSettled(i) ==
    IF txns[i].pc \in {"committed", "failed"} THEN "fulfilled" ELSE "pending"

\* the line of the Results modal under the points
ResultsModalText ==
    IF showModal = "Results" /\ quizResult # <<>>
    THEN "Your score has been added to your profile."
    ELSE ""

\* part_000: initialData of the listener
initialData == [score |-> 0, leagueScore |-> 0, globalRank |-> "#N/A"]

\* Web: the fields of the profile the listener creates
initialProfile == [score |-> 0, leagueScore |-> 0, globalRank |-> "N/A"]

DocData == [score |-> profile.score, leagueScore |-> profile.leagueScore,
            globalRank |-> profile.globalRank]

\* the onSnapshot callback of the profile document
OnSnapshot ==
    /\ snapDirty
    /\ snapDirty' = FALSE
    /\ IF profile.exists
       THEN /\ userData' = <<DocData>>
            /\ UNCHANGED initWritePending
       ELSE /\ initWritePending' = TRUE
            /\ userData' = IF variant = "part000" THEN <<initialData>> ELSE userData
    /\ UNCHANGED <<leagueVars, expiryVars, variant, isQuizActive, sessions, timeouts, ticks, partQuizVars,
                   webQuizVars, profile, txns>>

\* the listener's setDoc(..., { merge: true }) reaches the store
InitWrite ==
    /\ initWritePending
    /\ initWritePending' = FALSE
    /\ profile' = Written(profile, IF variant = "part000" THEN initialData
                                   ELSE initialProfile)
    /\ snapDirty' = (snapDirty \/ profile' # profile)
    /\ UNCHANGED <<leagueVars, expiryVars, variant, isQuizActive, sessions, timeouts, ticks, partQuizVars,
                   webQuizVars, userData, txns>>

-----------------------------------------------------------------------------
(* Web: quiz logic *)

\* MOCK_QUESTIONS[i].questionId is i + 1
MockQuestionId(index) == index + 1

\* Math.round(x / 10) for x >= 0
RoundTenths(x) == (x + 5) \div 10

\* mockResult and the object handleQuizFinish passes to setQuizResults;
\* answers and data are the quizAnswers and userData of the calling render
mockQuizResults(answers, data, isTimeout) ==
    LET totalCount == Len(answers)
        correctCount == RoundTenths(totalCount * 7)
        pointsEarned == RoundTenths(totalCount * 70)
        score == IF data = <<>> THEN 0 ELSE data[1].score
    IN  [ answered |-> totalCount,
          correct |-> correctCount,
          points |-> pointsEarned,
          accuracy |-> IF totalCount > 0 THEN ToFixed1(correctCount, totalCount) ELSE 0,
          isTimeout |-> isTimeout,
          newTotalScore |-> score + pointsEarned ]

\* handleQuizFinish(isTimeout) of the render whose quizAnswers, userData and
\* quizData are given. dataToSend reads quizData.quizId before the try: with
\* quizData null the async function rejects there, after setIsQuizActive(false)
\* and before any setQuizResults.
handleQuizFinish(answers, data, quiz, isTimeout) ==
    /\ isQuizActive' = FALSE
    /\ IF quiz = <<>>
       THEN UNCHANGED quizResults
       ELSE quizResults' = <<mockQuizResults(answers, data, isTimeout)>>

\* handleStartQuiz, from the Start Quiz button of the home page (rendered
\* when no quiz is active and no results are shown)
\* isQuizCompleted reads userData.quizzes_completed, a field neither program
\* writes, so its early return is never taken.
handleStartQuiz ==
    /\ variant = "web"
    /\ ~isQuizActive
    /\ quizData # <<>>                  \* the quiz card and its button are rendered if quizData
    /\ ~isQuizExpired                   \* the button is disabled={countdown <= 0 || isQuizCompleted}
    /\ quizResults = <<>>
    /\ sessions < MaxSessions
    /\ sessions' = sessions + 1
    /\ quizCurrentQuestion' = 0
    /\ quizTimeLeft' = timeLimitSeconds
    /\ quizAnswers' = <<>>
    /\ quizResults' = <<>>
    /\ isQuizActive' = TRUE
    /\ ticks' = 0
    /\ UNCHANGED <<leagueVars, expiryVars, variant, timeouts, quizFeedback, partQuizVars, storeVars>>

\* one firing of the interval of the QUIZ TIME LEFT effect, and the effect's
\* run for the render that follows (it finishes the quiz at quizTimeLeft <= 0)
WebTick ==
    /\ variant = "web"
    /\ isQuizActive
    /\ quizTimeLeft > 0
    /\ quizTimeLeft' = quizTimeLeft - 1
    /\ ticks' = ticks + 1
    /\ IF quizTimeLeft' <= 0
       THEN handleQuizFinish(quizAnswers, userData, quizData, TRUE)
       ELSE UNCHANGED <<isQuizActive, quizResults>>
    /\ UNCHANGED <<leagueVars, expiryVars, variant, sessions, timeouts, quizCurrentQuestion, quizAnswers,
                   quizFeedback, partQuizVars, storeVars>>

\* the guard of the option buttons: disabled={!!quizFeedback} and
\* onClick={() => !quizFeedback && handleAnswer(optionLetter)}
FeedbackShown(feedback) == feedback # <<>>

\* an option button's onClick: !quizFeedback && handleAnswer(optionLetter);
\* isCorrect is the outcome of Math.random() < 0.7
WebHandleAnswer(selectedOption, isCorrect) ==
    /\ variant = "web"
    /\ isQuizActive
    /\ IF FeedbackShown(quizFeedback)
       THEN UNCHANGED <<quizFeedback, quizAnswers, timeouts>>
       ELSE /\ quizFeedback' = <<[ status |-> IF isCorrect THEN "correct" ELSE "wrong",
                                   correctOption |-> IF isCorrect THEN selectedOption
                                                     ELSE "A" ]>>
            /\ quizAnswers' = Append(quizAnswers,
                                     [ questionId |-> MockQuestionId(quizCurrentQuestion),
                                       selectedOption |-> selectedOption ])
            /\ timeouts' = Append(timeouts, [ quizCurrentQuestion |-> quizCurrentQuestion,
                                              quizAnswers |-> quizAnswers,
                                              userData |-> userData,
                                              quizData |-> quizData ])
    /\ UNCHANGED <<leagueVars, expiryVars, variant, isQuizActive, sessions, ticks, quizCurrentQuestion, quizTimeLeft,
                   quizResults, partQuizVars, storeVars>>

\* the setTimeout callback advancing without the test against
\* MOCK_QUESTIONS.length - 1
WebAdvanceTimeoutUnbounded ==
    /\ variant = "web"
    /\ timeouts # <<>>
    /\ quizFeedback' = <<>>
    /\ quizCurrentQuestion' = quizCurrentQuestion + 1
    /\ timeouts' = Tail(timeouts)
    /\ UNCHANGED <<leagueVars, expiryVars, variant, isQuizActive, quizResults, sessions, ticks,
                   quizTimeLeft, quizAnswers, partQuizVars, storeVars>>

\* the setTimeout callback of handleAnswer (500 ms)
WebAdvanceTimeout ==
    /\ variant = "web"
    /\ timeouts # <<>>
    /\ LET closure == Head(timeouts)
       IN  /\ quizFeedback' = <<>>
           /\ IF closure.quizCurrentQuestion < MockLen - 1
              THEN /\ quizCurrentQuestion' = quizCurrentQuestion + 1
                   /\ UNCHANGED <<isQuizActive, quizResults>>
              ELSE /\ handleQuizFinish(closure.quizAnswers, closure.userData,
                                       closure.quizData, FALSE)
                   /\ UNCHANGED quizCurrentQuestion
    /\ timeouts' = Tail(timeouts)
    /\ UNCHANGED <<leagueVars, expiryVars, variant, sessions, ticks, quizTimeLeft, quizAnswers, partQuizVars, storeVars>>

\* "Continue to Home" of the results modal
CloseQuizResults ==
    /\ variant = "web"
    /\ ~isQuizActive
    /\ quizResults # <<>>
    /\ quizResults' = <<>>
    /\ UNCHANGED <<leagueVars, expiryVars, variant, isQuizActive, sessions, timeouts, ticks, quizCurrentQuestion,
                   quizTimeLeft, quizAnswers, quizFeedback, partQuizVars, storeVars>>

-----------------------------------------------------------------------------
(* Leagues: codes are strings, modelled as sequences of characters *)

\* characters of Math.random().toString(36): a lower-case letter and a digit
RawChars == {"a", "7"}

\* characters a user can type into the code field
InputChars == {"a", "A", "7"}

\* the strings over chars of the lengths modelled (the programs cut codes
\* and typed input at 6 characters; a code can be shorter, even empty)
Strings(chars) == UNION {[1..k -> chars] : k \in {0, 1}}

\* the values of Math.random().toString(36).substring(2, 8)
RawCodes == Strings(RawChars)

\* the values of the code field of the join form
TypedCodes == Strings(InputChars)

\* a lookup that takes the typed code as it is
ToUpperCaseOmitted(str) == str

\* String.prototype.toUpperCase
ToUpperCase(str) == [i \in DOMAIN str |-> IF str[i] = "a" THEN "A" ELSE str[i]]

\* the name and the description typed into the create form (one value each)
FormName == <<"L", "e", "o">>
FormDescription == <<"l", "e">>

\* the league document both programs pass to addDoc; code is <<>> (null) for a
\* public league (part_000 names the member count `members`)
NewLeagueDoc(u, isPrivate, raw) ==
    [ name |-> FormName, description |-> FormDescription,
      ownerId |-> u, isPrivate |-> isPrivate, memberCount |-> 1,
      code |-> IF isPrivate THEN <<ToUpperCase(raw)>> ELSE <<>> ]

(* part_000: the league list of the League page and its search box *)

\* DEFAULT_LEAGUES (isOwner is undefined, hence falsy, where it is not given)
DEFAULT_LEAGUES ==
    <<
       [ id |-> "L1", isPrivate |-> FALSE, isOwner |-> FALSE,
         \* 'Global Pro League'
         name |->
           << "G", "l", "o", "b", "a", "l", " ", "P", "r", "o", " ", "L", "e",
             "a", "g", "u", "e" >>,
         \* 'The worldwide ultimate football quiz challenge.'
         description |->
           << "T", "h", "e", " ", "w", "o", "r", "l", "d", "w", "i", "d", "e",
             " ", "u", "l", "t", "i", "m", "a", "t", "e", " ", "f", "o", "o",
             "t", "b", "a", "l", "l", " ", "q", "u", "i", "z", " ", "c", "h",
             "a", "l", "l", "e", "n", "g", "e", "." >> ],
       [ id |-> "L2", isPrivate |-> TRUE, isOwner |-> TRUE,
         \* 'Weekend Warriors'
         name |->
           << "W", "e", "e", "k", "e", "n", "d", " ", "W", "a", "r", "r", "i",
             "o", "r", "s" >>,
         \* 'A casual league for weekend quizzers.'
         description |->
           << "A", " ", "c", "a", "s", "u", "a", "l", " ", "l", "e", "a", "g",
             "u", "e", " ", "f", "o", "r", " ", "w", "e", "e", "k", "e", "n",
             "d", " ", "q", "u", "i", "z", "z", "e", "r", "s", "." >> ],
       [ id |-> "L3", isPrivate |-> FALSE, isOwner |-> FALSE,
         \* 'PL Fanatics'
         name |->
           << "P", "L", " ", "F", "a", "n", "a", "t", "i", "c", "s" >>,
         \* 'Premier League only trivia.'
         description |->
           << "P", "r", "e", "m", "i", "e", "r", " ", "L", "e", "a", "g", "u",
             "e", " ", "o", "n", "l", "y", " ", "t", "r", "i", "v", "i", "a",
             "." >> ]
    >>

UpperLetters == << "A", "B", "C", "D", "E", "F", "G", "H", "I", "J", "K", "L", "M",
                   "N", "O", "P", "Q", "R", "S", "T", "U", "V", "W", "X", "Y", "Z" >>
LowerLetters == << "a", "b", "c", "d", "e", "f", "g", "h", "i", "j", "k", "l", "m",
                   "n", "o", "p", "q", "r", "s", "t", "u", "v", "w", "x", "y", "z" >>

\* String.prototype.toLowerCase
toLowerCase(str) ==
    [i \in DOMAIN str |->
        IF \E k \in DOMAIN UpperLetters : UpperLetters[k] = str[i]
        THEN LowerLetters[CHOOSE k \in DOMAIN UpperLetters : UpperLetters[k] = str[i]]
        ELSE str[i]]

\* String.prototype.includes
includes(str, part) ==
    \E start \in 0..(Len(str) - Len(part)) :
        \A i \in 1..Len(part) : str[start + i] = part[i]

\* filteredLeagues of the League page for the text of its search box
filteredLeagues(searchQuery) ==
    LET shown(l) == /\ ~l.isOwner
                    /\ \/ includes(toLowerCase(l.name), toLowerCase(searchQuery))
                       \/ includes(toLowerCase(l.description), toLowerCase(searchQuery))
    IN  SelectSeq(DEFAULT_LEAGUES, shown)

\* the leagues the page lists under the search box
LeagueList(searchQuery) ==
    IF searchQuery # <<>>
    THEN filteredLeagues(searchQuery)
    ELSE LET isPublic(l) == ~l.isPrivate
             top == SelectSeq(DEFAULT_LEAGUES, isPublic)
         IN  SubSeq(top, 1, IF Len(top) < 3 THEN Len(top) ELSE 3)

\* query(leagues, where('code', '==', code)): the documents that match
QueryByCode(code) == {i \in DOMAIN leagues : leagues[i].code = <<code>>}

\* the handler of client u ends and reports outcome (a toast or an alert)
Report(u, outcome) ==
    /\ proc' = [proc EXCEPT ![u] = [pc |-> "idle", league |-> 0]]
    /\ lastOutcome' = outcome

\* the handler of client u suspends at an await
Await(u, pc, league) ==
    /\ proc' = [proc EXCEPT ![u] = [pc |-> pc, league |-> league]]
    /\ UNCHANGED lastOutcome

\* Web: setDoc / transaction.set of the user's myLeagues document of a league
SetMembership(u, league, isOwner) ==
    memberships' = [k \in DOMAIN memberships \cup {<<u, league>>} |->
                      IF k = <<u, league>>
                      THEN [ isOwner |-> isOwner,
                             score |-> IF userData = <<>> THEN 0
                                       ELSE userData[1].leagueScore ]
                      ELSE memberships[k]]

\* part_000: handleCreateLeague; raw is Math.random().toString(36).substring(2, 8)
handleCreateLeague(u, isPrivate, raw) ==
    /\ variant = "part000"
    /\ proc[u].pc \in {"idle", "ConfirmJoin"}
    /\ Len(leagues) < MaxLeagues
    /\ leagues' = Append(leagues, NewLeagueDoc(u, isPrivate, raw))
    /\ Report(u, "Created")
    /\ UNCHANGED <<quizVars, memberships, joins>>

\* part_000: handleJoinLeague; a match is put into the modal state
\* { type: 'ConfirmJoin', league }. That modal is rendered only if
\* showModal === 'ConfirmJoin', which an object never is, so confirmJoinLeague
\* cannot be invoked and the League page's buttons stay usable.
handleJoinLeague(u, input) ==
    /\ variant = "part000"
    /\ proc[u].pc \in {"idle", "ConfirmJoin"}
    /\ LET code == ToUpperCase(input)
       IN  IF code = <<>>
           THEN Report(u, "Invalid")
           ELSE IF QueryByCode(code) = {}
           THEN Report(u, "NotFound")
           ELSE \E i \in QueryByCode(code) : Await(u, "ConfirmJoin", i)
    /\ UNCHANGED <<quizVars, leagues, memberships, joins>>

\* Web: handleModalSubmit, modalType 'create', up to the await of addDoc;
\* filled: name and description are both non-empty
handleModalSubmitCreate(u, filled, isPrivate, raw) ==
    /\ variant = "web"
    /\ proc[u].pc = "idle"
    /\ IF ~filled
       THEN /\ Report(u, "Invalid")
            /\ UNCHANGED leagues
       ELSE /\ Len(leagues) < MaxLeagues
            /\ leagues' = Append(leagues, NewLeagueDoc(u, isPrivate, raw))
            /\ Await(u, "setDoc", Len(leagues) + 1)
    /\ UNCHANGED <<quizVars, memberships, joins>>

\* Web: the setDoc of the creator's myLeagues document and the rest of the handler
CreateSetDoc(u) ==
    /\ variant = "web"
    /\ proc[u].pc = "setDoc"
    /\ SetMembership(u, proc[u].league, TRUE)
    /\ Report(u, "Created")
    /\ UNCHANGED <<quizVars, leagues, joins>>

\* Web: that setDoc is rejected (store unavailable, permission): the catch of
\* handleModalSubmit alerts "Failed to complete action" and the handler ends
CreateSetDocFails(u) ==
    /\ variant = "web"
    /\ proc[u].pc = "setDoc"
    /\ Report(u, "Failed")
    /\ UNCHANGED <<quizVars, leagues, memberships, joins>>

\* Web: handleModalSubmit, modalType 'join', up to the await of getDocs
handleModalSubmitJoin(u, input) ==
    /\ variant = "web"
    /\ proc[u].pc = "idle"
    /\ LET code == ToUpperCase(input)
       IN  IF code = <<>>
           THEN Report(u, "Invalid") /\ UNCHANGED joins
           ELSE IF QueryByCode(code) = {}
           THEN Report(u, "NotFound") /\ UNCHANGED joins
           ELSE /\ joins < MaxJoins
                /\ joins' = joins + 1
                /\ \E i \in QueryByCode(code) : Await(u, "transaction", i)
    /\ UNCHANGED <<quizVars, leagues, memberships>>

\* Web: the runTransaction of the join (it reads nothing and sets the user's
\* myLeagues document) and the rest of the handler
JoinTransaction(u) ==
    /\ variant = "web"
    /\ proc[u].pc = "transaction"
    /\ SetMembership(u, proc[u].league, FALSE)
    /\ Report(u, "Joined")
    /\ UNCHANGED <<quizVars, leagues, joins>>

\* the users that run the program in the league directory of two clients
Clients == {"u1", "u2"}

(* The league directory of either program, two clients at work *)
NextLeague ==
    \/ \E u \in Clients, isPrivate \in BOOLEAN, raw \in RawCodes :
          handleCreateLeague(u, isPrivate, raw)
    \/ \E u \in Clients, input \in TypedCodes :
          handleJoinLeague(u, input)
    \/ \E u \in Clients, filled \in BOOLEAN, isPrivate \in BOOLEAN,
          raw \in RawCodes :
          handleModalSubmitCreate(u, filled, isPrivate, raw)
    \/ \E u \in Clients : CreateSetDoc(u)
    \/ \E u \in Clients, input \in TypedCodes :
          handleModalSubmitJoin(u, input)
    \/ \E u \in Clients : JoinTransaction(u)

SpecLeague == Init /\ [][NextLeague]_vars

(* The same with a store that can reject the creator's membership write *)
NextLeagueFail ==
    \/ NextLeague
    \/ \E u \in Clients : CreateSetDocFails(u)

SpecLeagueFail == Init /\ [][NextLeagueFail]_vars

(* The league directory of either program, every user at work *)
NextLeagueAll ==
    \/ \E u \in Users, isPrivate \in BOOLEAN, raw \in RawCodes :
          handleCreateLeague(u, isPrivate, raw)
    \/ \E u \in Users, input \in TypedCodes :
          handleJoinLeague(u, input)
    \/ \E u \in Users, filled \in BOOLEAN, isPrivate \in BOOLEAN,
          raw \in RawCodes :
          handleModalSubmitCreate(u, filled, isPrivate, raw)
    \/ \E u \in Users : CreateSetDoc(u)
    \/ \E u \in Users, input \in TypedCodes :
          handleModalSubmitJoin(u, input)
    \/ \E u \in Users : JoinTransaction(u)

SpecLeagueAll == Init /\ [][NextLeagueAll]_vars

-----------------------------------------------------------------------------
(* The session engine of either program with the profile listener.  Here    *)
(* The expiry of the quiz definition and the home page's countdown to it.     *)
(* Neither start handler reads expiresAt: the Start button is disabled by     *)
(* the countdown state, which is set from expiresAt - Date.now() when it is   *)
(* computed and is then decremented by interval callbacks, one second per     *)
(* callback run, however late the callback runs.                              *)

\* Date.now() reaches expiresAt
ExpiresAtPasses ==
    /\ ~pastExpiresAt
    /\ pastExpiresAt' = TRUE
    /\ UNCHANGED <<leagueVars, isQuizExpired, quizData, variant, isQuizActive, sessions, timeouts,
                   ticks, partQuizVars, webQuizVars, storeVars>>

\* the interval callback that brings the countdown to 0. Every decrement of
\* one second comes at least one second after the previous one, so the
\* countdown is at 0 no earlier than expiresAt (part_000 floors to whole
\* seconds: the sub-second lead of its countdown is left out).
CountdownZero ==
    /\ pastExpiresAt
    /\ ~isQuizExpired
    /\ isQuizExpired' = TRUE
    /\ UNCHANGED <<leagueVars, pastExpiresAt, quizData, variant, isQuizActive, sessions, timeouts,
                   ticks, partQuizVars, webQuizVars, storeVars>>

\* Web: fetchActiveQuiz (at mount and every 30 s): setCountdown(Math.max(0, expiresAt - Date.now()))
\* and setQuizData; with no quiz in the response, setQuizData(null) and setCountdown(0)
fetchActiveQuiz(response) ==
    /\ variant = "web"
    /\ quizData' = response
    /\ isQuizExpired' = IF response = <<>> THEN TRUE ELSE pastExpiresAt
    /\ <<quizData', isQuizExpired'>> # <<quizData, isQuizExpired>>
    /\ UNCHANGED <<leagueVars, pastExpiresAt, variant, isQuizActive, sessions, timeouts, ticks,
                   partQuizVars, webQuizVars, storeVars>>

\* part_000: HomePage mounts, useState(Math.max(0, floor((quizExpiration - Date.now()) / 1000)))
HomePage ==
    /\ variant = "part000"
    /\ isQuizExpired # pastExpiresAt
    /\ isQuizExpired' = pastExpiresAt
    /\ UNCHANGED <<leagueVars, pastExpiresAt, quizData, variant, isQuizActive, sessions, timeouts,
                   ticks, partQuizVars, webQuizVars, storeVars>>

(* txns is the list of the updateUserScore calls made; the steps of the      *)
(* transactions change no session variable and are left to SpecScore and     *)
(* SpecApp.                                                                   *)
Next ==
    \/ startQuiz
    \/ Tick
    \/ \E o \in SelectableOptions : handleAnswer(o)
    \/ AdvanceTimeout
    \/ CloseResultsModal
    \/ handleStartQuiz
    \/ WebTick
    \/ \E o \in OptionLetters, c \in BOOLEAN : WebHandleAnswer(o, c)
    \/ WebAdvanceTimeout
    \/ CloseQuizResults
    \/ OnSnapshot
    \/ InitWrite
    \/ ExpiresAtPasses
    \/ CountdownZero
    \/ \E response \in QuizResponses : fetchActiveQuiz(response)
    \/ HomePage

Spec == Init /\ [][Next]_vars

(* The timers keep running: setInterval runs its callback again and again   *)
(* while the interval is set, which it is while the quiz is active.          *)
SpecFair == Spec /\ WF_vars(Tick) /\ WF_vars(WebTick)

(* The profile document alone: updateUserScore called with any points, the   *)
(* transactions and the listener, in any interleaving.                        *)
ScorePoints == {c * pointsPerQuestion : c \in 0..MaxCorrect}

updateUserScore(points) ==
    /\ variant = "part000"
    /\ Len(txns) < MaxCalls
    /\ txns' = Append(txns, NewTxn(points, txns))
    /\ UNCHANGED <<leagueVars, expiryVars, variant, isQuizActive, sessions, timeouts, ticks, partQuizVars,
                   webQuizVars, profile, userData, snapDirty, initWritePending>>

NextScore ==
    \/ \E p \in ScorePoints : updateUserScore(p)
    \/ \E i \in DOMAIN txns : TxnGet(i)
    \/ \E i \in DOMAIN txns : TxnBody(i)
    \/ \E i \in DOMAIN txns : TxnCommit(i)
    \/ OnSnapshot
    \/ InitWrite

SpecScore == Init /\ [][NextScore]_vars

(* part_000 as a whole: the session engine and the store together.  A quiz   *)
(* is started only once the transactions of the previous one have ended.      *)
NextApp ==
    \/ (InFlight(txns) = {} /\ startQuiz)
    \/ Tick
    \/ \E o \in SelectableOptions : handleAnswer(o)
    \/ AdvanceTimeout
    \/ CloseResultsModal
    \/ \E i \in DOMAIN txns : TxnGet(i)
    \/ \E i \in DOMAIN txns : TxnBody(i)
    \/ \E i \in DOMAIN txns : TxnCommit(i)
    \/ OnSnapshot
    \/ InitWrite

InitApp == Init /\ variant = "part000"

SpecApp == InitApp /\ [][NextApp]_vars

-----------------------------------------------------------------------------
(* Properties of the score write and of the quiz session *)

\* C1: the points of a quiz are added to the stored score at most once per
\* (user, quiz): once a call of updateUserScore with positive points has been
\* applied to the profile of the user, finishing the same quiz again (there is
\* one user and one quiz) adds nothing to the stored score.
C1_ScoredAtMostOnce ==
    [][ (\E i \in DOMAIN txns : txns[i].pc = "committed" /\ txns[i].points > 0)
        => profile'.score <= profile.score ]_vars

\* C2: when the score write for the same user and quiz, with the same points
\* p > 0, is invoked twice concurrently (the second call is made while the
\* first is in flight), then once both have ended exactly one of them has
\* been applied and the stored score has grown by p only.
C2_ConcurrentAppliedOnce ==
    \A i \in DOMAIN txns : \A j \in DOMAIN txns :
        ( /\ i \in txns[j].inFlightAtCall
          /\ txns[i].points = txns[j].points
          /\ txns[i].points > 0
          /\ InFlight(txns) = {} )
        => /\ Cardinality({k \in {i, j} : txns[k].pc = "committed"}) = 1
           /\ (Len(txns) = 2 => profile.score = txns[i].points)

\* the timedOut flag of a result of part_000 (a result without the field does
\* not say that the session timed out)
ResultTimedOut(r) == "timedOut" \in DOMAIN r /\ r.timedOut

\* the step in which the timer finishes the running session
TimerFinishes ==
    /\ isQuizActive
    /\ ~isQuizActive'
    /\ ticks' = ticks + 1

\* no answer has been given in the running session
NoAnswerGiven ==
    IF variant = "part000" THEN quizState[1].answeredCount = 0
    ELSE quizAnswers = <<>>

\* C3: a session that times out after some answers is finished with a result
\* made of the answers recorded before the timeout: answeredCount and
\* correctCount are the session's counters, pointsEarned is correctCount times
\* pointsPerQuestion, and timedOut is true.
C3_TimeoutKeepsAnswers ==
    [][ (TimerFinishes /\ ~NoAnswerGiven) =>
          IF variant = "part000"
          THEN /\ quizResult'[1].totalAnswered = quizState[1].answeredCount
               /\ quizResult'[1].correctAnswers = quizState[1].correctAnswers
               /\ quizResult'[1].pointsEarned
                    = quizState[1].correctAnswers * pointsPerQuestion
               /\ ResultTimedOut(quizResult'[1])
          ELSE /\ quizResults' # <<>>
               /\ quizResults'[1].answered = Len(quizAnswers)
               /\ quizResults'[1].points = quizResults'[1].correct * pointsPerQuestion
               /\ quizResults'[1].isTimeout ]_vars

\* C4: a session of time limit T that receives no answer is still running
\* before the T-th tick, and the T-th tick finishes it with timedOut = true,
\* answeredCount = 0 and pointsEarned = 0.
C4_TimeoutWithoutAnswers ==
    [][ /\ (isQuizActive' /\ NoAnswerGiven') => ticks' < timeLimitSeconds
        /\ (TimerFinishes /\ NoAnswerGiven) =>
              /\ ticks' = timeLimitSeconds
              /\ IF variant = "part000"
                 THEN /\ quizResult'[1].totalAnswered = 0
                      /\ quizResult'[1].pointsEarned = 0
                      /\ ResultTimedOut(quizResult'[1])
                 ELSE /\ quizResults' # <<>>
                      /\ quizResults'[1].answered = 0
                      /\ quizResults'[1].points = 0
                      /\ quizResults'[1].isTimeout ]_vars

\* C5: in every reachable state of a session, and in every result shown,
\* correctCount <= answeredCount <= the number of questions.
C5_CountersOrdered ==
    /\ quizState # <<>> =>
          /\ quizState[1].correctAnswers <= quizState[1].answeredCount
          /\ quizState[1].answeredCount <= NumQuestions
    /\ quizResult # <<>> =>
          /\ quizResult[1].correctAnswers <= quizResult[1].totalAnswered
          /\ quizResult[1].totalAnswered <= NumQuestions
    /\ Len(quizAnswers) <= MockLen
    /\ quizResults # <<>> =>
          /\ quizResults[1].correct <= quizResults[1].answered
          /\ quizResults[1].answered <= MockLen

\* every question of a running part_000 session has been answered, some of
\* them wrongly, and the last delayed advance is still pending
C5_Witness ==
    /\ variant = "part000"
    /\ isQuizActive
    /\ quizState # <<>>
    /\ quizState[1].answeredCount = NumQuestions
    /\ quizState[1].correctAnswers = 2
    /\ timeouts # <<>>

\* part_000: the question shown has been answered in the running session
QuestionAnswered ==
    /\ quizState # <<>>
    /\ Questions[quizState[1].currentQuestionIndex + 1].id
         \in DOMAIN quizState[1].questionStatus

\* Web: the question shown has an entry in quizAnswers
WebAlreadyAnswered ==
    \E k \in DOMAIN quizAnswers :
        quizAnswers[k].questionId = MockQuestionId(quizCurrentQuestion)

\* C6: a click on an option of a question that has already been answered in
\* the running session is a no-op: the counters, the per-question status, the
\* recorded answers and the pending advances are left as they are.
C6_SecondAnswerNoOp ==
    [][ /\ \A o \in SelectableOptions :
              ( /\ handleAnswer(o)
                /\ QuestionAnswered )
              => UNCHANGED <<quizState, timeouts, quizResult, txns>>
        /\ \A o \in OptionLetters : \A c \in BOOLEAN :
              ( /\ WebHandleAnswer(o, c)
                /\ WebAlreadyAnswered )
              => UNCHANGED <<quizAnswers, quizFeedback, quizCurrentQuestion, timeouts,
                             quizResults>> ]_vars

\* the current question of a running session has been answered and its
\* delayed advance has not run yet: a second click is possible
C6_Witness ==
    /\ isQuizActive
    /\ timeouts # <<>>
    /\ IF variant = "part000"
       THEN QuestionAnswered
       ELSE WebAlreadyAnswered

\* the session is finished: a result has been produced and no quiz is running
Finished ==
    /\ ~isQuizActive
    /\ IF variant = "part000" THEN quizResult # <<>> ELSE quizResults # <<>>

\* C7: finishing is idempotent: while the session stays finished its result,
\* timedOut included, does not change and no further score write is issued.
C7_FinishIdempotent ==
    [][ (Finished /\ Finished') =>
            /\ quizResult' = quizResult
            /\ quizResults' = quizResults
            /\ Len(txns') = Len(txns) ]_vars

-----------------------------------------------------------------------------
(* Properties of the league directory *)

\* C8: no two private leagues that exist at the same time share a join code
\* (a generated code that collides with the code of an existing private
\* league is regenerated, or the creation fails with CodeExhausted).
C8_PrivateCodesUnique ==
    \A i \in DOMAIN leagues : \A j \in DOMAIN leagues :
        (i # j /\ leagues[i].isPrivate /\ leagues[j].isPrivate)
        => leagues[i].code # leagues[j].code

\* the users other than the creator that hold a membership record of league l
Joiners(l) ==
    {u \in Users : u # leagues[l].ownerId /\ <<u, l>> \in DOMAIN memberships}

\* C9: when two distinct users have joined the same league, concurrently or
\* one after the other, and neither join is still in flight, the stored
\* memberCount of the league is 2 higher than the 1 it was created with and
\* each of the two users has a membership record of the league.
C9_ConcurrentJoinsCounted ==
    \A l \in DOMAIN leagues : \A u \in Users : \A v \in Users :
        ( /\ u # v
          /\ {u, v} \subseteq Joiners(l)
          /\ Cardinality(Joiners(l)) = 2
          /\ \A w \in Users : proc[w].pc # "transaction" )
        => leagues[l].memberCount = 1 + 2

\* lower-casing, to compare codes without regard to case
ToLowerCase(str) == [i \in DOMAIN str |-> IF str[i] = "A" THEN "a" ELSE str[i]]

\* the private leagues whose join code is the typed code, case ignored
PrivateMatches(input) ==
    {i \in DOMAIN leagues :
        /\ leagues[i].isPrivate
        /\ leagues[i].code # <<>>
        /\ ToLowerCase(leagues[i].code[1]) = ToLowerCase(input)}

\* C10: the lookup by code of either program matches the typed code, case
\* ignored, against the join codes of the private leagues only and yields one
\* league at most; when no private league has the code, also when there is no
\* league at all, the outcome is NotFound and no league, membership or profile
\* record is changed. (An empty input is rejected by the validation before the
\* lookup, with no record changed either.)
C10_FindByCode ==
    [][ \A u \in Clients : \A input \in TypedCodes :
          (handleJoinLeague(u, input) \/ handleModalSubmitJoin(u, input)) =>
             /\ UNCHANGED <<leagues, memberships, profile>>
             /\ IF input = <<>>
                THEN lastOutcome' = "Invalid" /\ proc'[u].pc = "idle"
                ELSE IF PrivateMatches(input) = {}
                THEN lastOutcome' = "NotFound" /\ proc'[u].pc = "idle"
                ELSE /\ proc'[u].pc \in {"ConfirmJoin", "transaction"}
                     /\ proc'[u].league \in PrivateMatches(input)
                     /\ lastOutcome' = lastOutcome ]_vars

\* a lookup has found a private league for one user and the last lookup of
\* another ended with NotFound although a public and a private league exist
C10_Witness ==
    /\ lastOutcome = "NotFound"
    /\ \E u \in Users : proc[u].pc \in {"ConfirmJoin", "transaction"}
    /\ \E i \in DOMAIN leagues : ~leagues[i].isPrivate
    /\ \E i \in DOMAIN leagues : leagues[i].isPrivate

-----------------------------------------------------------------------------
(* Properties of the score transaction *)

\* the transactions that have been applied to the profile
Committed == {k \in DOMAIN txns : txns[k].pc = "committed"}

-----------------------------------------------------------------------------
(* Properties of joining and creating leagues *)

\* C12: a join by a user who already has a membership record of the league
\* (the owner included) fails with AlreadyMember and leaves the membership
\* record, its isOwner flag and score, and the league's memberCount as they
\* are.
C12_AlreadyMemberRejected ==
    [][ \A u \in Clients :
          (JoinTransaction(u) /\ <<u, proc[u].league>> \in DOMAIN memberships)
          => /\ memberships' = memberships
             /\ leagues' = leagues
             /\ lastOutcome' = "AlreadyMember" ]_vars

\* C13: when a creation of a league by user u has completed, the store holds
\* the league record with memberCount = 1 and ownerId = u and a membership
\* record of (u, that league) with isOwner = true.
C13_CreateLeagueRecords ==
    [][ \A u \in Clients :
          ( \/ \E isPrivate \in BOOLEAN, raw \in RawCodes :
                  handleCreateLeague(u, isPrivate, raw)
            \/ CreateSetDoc(u) )
          => LET l == IF variant = "web" THEN proc[u].league ELSE Len(leagues')
             IN  /\ leagues'[l].memberCount = 1
                 /\ leagues'[l].ownerId = u
                 /\ <<u, l>> \in DOMAIN memberships'
                 /\ memberships'[<<u, l>>].isOwner ]_vars

-----------------------------------------------------------------------------
(* Properties of starting a quiz *)

\* C14: start is a no-op when the quiz definition has expired (expiresAt <=
\* now): a step of the start handler taken then leaves the session not
\* started and initialises no session state (index, answers, remaining
\* seconds).
C14_ExpiredStartNoOp ==
    [][ (pastExpiresAt /\ (startQuiz \/ handleStartQuiz))
        => UNCHANGED <<isQuizActive, sessions, quizState, timeRemaining, quizResult,
                       quizCurrentQuestion, quizAnswers, quizTimeLeft, quizResults>> ]_vars

-----------------------------------------------------------------------------
(* Properties of a failed score transaction *)

\* C15: when the score transaction fails (contention past the retry budget),
\* the failure is surfaced to the caller as SyncFailed and not reported as
\* success, the stored score is unchanged, and the session's result is left
\* intact.
C15_FailureSurfaced ==
    [][ \A i \in DOMAIN txns :
          (txns[i].pc # "failed" /\ txns'[i].pc = "failed")
          => /\ updateUserScoreSettled(i)' = "SyncFailed"
             /\ ResultsModalText' # "Your score has been added to your profile."
             /\ profile' = profile
             /\ quizResult' = quizResult ]_vars

-----------------------------------------------------------------------------
(* Properties of when the score is written *)

\* C16: no score is written to the profile while a session is not started or
\* active: updateUserScore is called only in the step that finishes a
\* session, with the points of that session's result, so nothing is written
\* before the first session has finished and a session that is left before
\* it finishes writes nothing.
C16_ScoreOnlyAtFinish ==
    [][ /\ (sessions = 0 \/ (sessions = 1 /\ isQuizActive)) => txns = <<>>
        /\ txns' # txns
           => /\ Len(txns') = Len(txns) + 1
              /\ sessions >= 1
              /\ ~isQuizActive'
              /\ quizResult' # <<>>
              /\ txns'[Len(txns')].points = quizResult'[1].pointsEarned ]_vars

\* the first session has finished with correct answers and its finish made
\* the one score call there is, with the points of its result
C16_Witness ==
    /\ variant = "part000"
    /\ sessions = 1
    /\ ~isQuizActive
    /\ quizResult # <<>>
    /\ Len(txns) = 1
    /\ txns[1].points = quizResult[1].pointsEarned
    /\ quizResult[1].pointsEarned > 0

-----------------------------------------------------------------------------
(* Properties of a finished session *)

\* C17: Finished is terminal for a session: once a session has finished, no
\* later event of that session (timer tick, answer, or a delayed advance
\* scheduled before the finish) changes its current index, its answers and
\* counters or its remaining seconds, and the session is not active again.
C17_FinishedTerminal ==
    [][ (sessions >= 1 /\ ~isQuizActive /\ sessions' = sessions)
        => /\ ~isQuizActive'
           /\ UNCHANGED <<quizState, timeRemaining,
                          quizCurrentQuestion, quizAnswers, quizTimeLeft>> ]_vars

-----------------------------------------------------------------------------
(* Properties of the result *)

\* the step finishes the running session from a delayed advance (not from the timer)
AdvanceFinishes == isQuizActive /\ ~isQuizActive' /\ ticks' = ticks

\* C18: when the last question is answered the session finishes (not timed
\* out) and the result is produced from the counters that include that last
\* answer: with every one of the N questions answered the result reports
\* N answered, and its correct count is the session's correct count, the
\* last answer included.
C18_LastAnswerCounted ==
    [][ /\ (AdvanceFinishes /\ variant = "part000" /\ quizState[1].answeredCount = NumQuestions)
           => /\ quizResult'[1].totalAnswered = NumQuestions
              /\ quizResult'[1].correctAnswers = quizState[1].correctAnswers
        /\ (AdvanceFinishes /\ variant = "web" /\ Len(quizAnswers) = MockLen)
           => /\ quizResults' # <<>>
              /\ quizResults'[1].answered = MockLen
              /\ ~quizResults'[1].isTimeout ]_vars

\* C19: in every result, the points earned are the reported correct count
\* times pointsPerQuestion, and the accuracy rate is 0 when the reported
\* answered count is 0. (Web: 10 points per question too, the factor of its
\* mockResult and totalPoints / totalQuestions of QUIZ_DATA_MOCK.)
C19_PointsFromCorrectCount ==
    /\ quizResult # <<>>
       => /\ quizResult[1].pointsEarned = quizResult[1].correctAnswers * pointsPerQuestion
          /\ quizResult[1].totalAnswered = 0 => quizResult[1].accuracyRate = 0
    /\ quizResults # <<>>
       => /\ quizResults[1].points = quizResults[1].correct * pointsPerQuestion
          /\ quizResults[1].answered = 0 => quizResults[1].accuracy = 0

-----------------------------------------------------------------------------
(* Properties of the evaluation of an answer *)

\* C20: answer evaluation is deterministic: the correctness recorded for an
\* answer is "correct" exactly when the selected option is the correct
\* option of the current question, so the same question and option always
\* give the same outcome.
C20_EvaluationDeterministic ==
    [][ /\ ( /\ variant = "part000" /\ quizState # <<>> /\ quizState' # <<>>
             /\ ~AlreadyAnswered(quizState[1]) /\ AlreadyAnswered(quizState'[1])
             /\ quizState'[1].currentQuestionIndex = quizState[1].currentQuestionIndex )
           => LET q == CurrentQ(quizState[1])
                  entry == quizState'[1].questionStatus[q.id]
              IN  (entry.status = "correct") <=> (entry.selected = q.correct)
        /\ (variant = "web" /\ quizFeedback = <<>> /\ quizFeedback' # <<>>)
           => ( (quizFeedback'[1].status = "correct")
                <=> (quizAnswers'[Len(quizAnswers')].selectedOption
                       = quizFeedback'[1].correctOption) ) ]_vars

-----------------------------------------------------------------------------
(* Properties of the remaining time *)

\* the remaining seconds of the session of the running program
remainingSeconds == IF variant = "part000" THEN timeRemaining ELSE quizTimeLeft

\* C21: while a session is active its remaining seconds never increase from
\* one state to the next and never go below 0; when they reach 0 the session
\* is finished with a result that records timedOut = true.
C21_RemainingSeconds ==
    [][ /\ remainingSeconds' >= 0
        /\ (isQuizActive /\ isQuizActive') => remainingSeconds' <= remainingSeconds
        /\ (isQuizActive /\ remainingSeconds > 0 /\ remainingSeconds' = 0)
           => /\ ~isQuizActive'
              /\ IF variant = "part000"
                 THEN quizResult' # <<>> /\ ResultTimedOut(quizResult'[1])
                 ELSE quizResults' # <<>> /\ quizResults'[1].isTimeout ]_vars

-----------------------------------------------------------------------------
(* Properties of the current question *)

\* C22: in every reachable state the current index is between 0 and the
\* number of questions, and while the session is active it is below the
\* number of questions, so the current question exists; under every
\* interleaving of answers, delayed advances, timeouts and restarts.
C22_CurrentIndexInRange ==
    IF variant = "part000"
    THEN quizState # <<>>
         => /\ quizState[1].currentQuestionIndex \in 0..NumQuestions
            /\ isQuizActive => quizState[1].currentQuestionIndex < NumQuestions
    ELSE /\ quizCurrentQuestion \in 0..MockLen
         /\ isQuizActive => quizCurrentQuestion < MockLen

\* the second session is at its last question with a delayed advance pending
C22_Witness ==
    /\ variant = "web"
    /\ sessions = 2
    /\ isQuizActive
    /\ quizCurrentQuestion = MockLen - 1
    /\ timeouts # <<>>

-----------------------------------------------------------------------------
(* Properties of the profile document *)

\* C23: the stored score is changed only by the score transaction: the
\* profile initialisation of the listener only creates an absent profile
\* with score 0 and, under every interleaving with a score transaction,
\* never overwrites a score already written (the stored score never
\* decreases).
C23_InitNeverOverwrites ==
    [][ /\ profile'.score >= profile.score
        /\ (profile.exists /\ profile'.score # profile.score)
           => \E i \in DOMAIN txns : txns[i].pc = "commit" /\ txns'[i].pc = "committed" ]_vars

\* C24: the score transaction changes only the score of the profile: a
\* commit on an existing profile leaves its globalRank and its leagueScore
\* as they were before.
C24_ReconcileFrame ==
    [][ \A i \in DOMAIN txns :
          (profile.exists /\ txns[i].pc = "commit" /\ txns'[i].pc = "committed")
          => /\ profile'.globalRank = profile.globalRank
             /\ profile'.leagueScore = profile.leagueScore ]_vars

-----------------------------------------------------------------------------
(* Properties of the membership records *)

\* C25: in every reachable state a membership (user, league) has isOwner
\* true exactly when the user is the creator (ownerId) of that league: no
\* sequence of creations and joins makes the creator a non-owner member or
\* a non-creator an owner.
C25_OwnerIsCreator ==
    \A k \in DOMAIN memberships :
        memberships[k].isOwner <=> (leagues[k[2]].ownerId = k[1])

-----------------------------------------------------------------------------
(* Properties of the quiz definition refresh *)

\* C26: the refresh of the quiz definition is decoupled from a running
\* session: whatever the polls have put in place of the definition while the
\* session was active (another response, or no active quiz), the step that
\* ends the session leaves it finished with a result.
C26_RefreshDecoupled ==
    [][ (variant = "web" /\ isQuizActive /\ ~isQuizActive') => Finished' ]_vars

-----------------------------------------------------------------------------
(* Properties of the league search *)

\* the characters and the texts typed into the search box
SearchChars == {"l", "L", "e"}
SearchQueries == UNION {[1..k -> SearchChars] : k \in 0..2}

\* every league there is, in insertion order: the listed ones, then the
\* documents of the leagues collection
AllLeagues ==
    [i \in 1..Len(DEFAULT_LEAGUES) |->
        [ name |-> DEFAULT_LEAGUES[i].name, description |-> DEFAULT_LEAGUES[i].description,
          isPrivate |-> DEFAULT_LEAGUES[i].isPrivate ]]
    \o [i \in 1..Len(leagues) |->
        [ name |-> leagues[i].name, description |-> leagues[i].description,
          isPrivate |-> leagues[i].isPrivate ]]

\* the non-private leagues with the text in their name or description, case ignored
PublicMatches(queryText) ==
    LET matches(l) == /\ ~l.isPrivate
                      /\ \/ includes(toLowerCase(l.name), toLowerCase(queryText))
                         \/ includes(toLowerCase(l.description), toLowerCase(queryText))
    IN  SelectSeq(AllLeagues, matches)

NamesOf(list) == [i \in DOMAIN list |-> list[i].name]

\* C27: the search of the public leagues returns exactly the non-private
\* leagues whose name or description contains the text, case ignored, in
\* insertion order: no private league is in the result and no matching
\* public league is left out.
C27_SearchPublic ==
    variant = "part000"
    => \A queryText \in SearchQueries :
          NamesOf(LeagueList(queryText)) = NamesOf(PublicMatches(queryText))

-----------------------------------------------------------------------------
(* Termination of a session *)

\* C28: every session that becomes active eventually becomes finished (not
\* active, with its result), given that the timer keeps ticking, whatever
\* answers are or are not given and however ticks interleave with answers
\* and delayed advances.
C28_ActiveLeadsToFinished ==
    \A n \in 1..MaxSessions :
        (isQuizActive /\ sessions = n) ~> (Finished /\ sessions = n)

-----------------------------------------------------------------------------
(* Properties of the creation of a league *)

\* C29: league creation is all-or-nothing: in every reachable state, also
\* after a creation that failed between its two writes, every league record
\* in the store comes with the membership record of its creator.
C29_CreateAllOrNothing ==
    \A l \in DOMAIN leagues : <<leagues[l].ownerId, l>> \in DOMAIN memberships

-----------------------------------------------------------------------------
(* Properties of the local copy of the score *)

\* C30: after updateUserScore has finished, whether its transaction was
\* committed or failed and however often its body ran, the score in the
\* client's user data is the score stored in the profile (every call has
\* ended and the listener has been given the last snapshot).
C30_LocalScoreIsStored ==
    (txns # <<>> /\ InFlight(txns) = {} /\ ~snapDirty /\ ~initWritePending)
    => userData[1].score = profile.score


====
